---- MODULE Spec2Model ----
(***************************************************************************)
(* Model of torcheeg.datasets.module.numpy_dataset.NumpyDataset: the block *)
(* planner (__block__), the per-block producer (__io__) run by a pool of   *)
(* workers that share one write lock and two stores, and the read path     *)
(* (__getitem__).                                                          *)
(*                                                                         *)
(* Arrays are sequences (numpy index g is position g+1); numpy indices,    *)
(* block ids and write pointers keep their 0-based values.                 *)
(***************************************************************************)
EXTENDS Integers, Sequences, FiniteSets, TLC

\* ---------------------------------------------------------------- bounds
MaxN == 4          \* largest number of samples in X of a run
MaxBlocks == 2     \* largest number of blocks of a run
MaxWorker == 2     \* largest num_worker
MaxBlockN == 7     \* largest number of samples in X when only __block__ runs
MaxReadN == 3      \* largest number of samples in X of a run with a reader

\* ---------------------------------------------------------------- helpers
Digit == <<"0", "1", "2", "3", "4", "5", "6", "7", "8", "9">>

\* str(n) of a non-negative int, as the f-strings format it
RECURSIVE Str(_)
Str(n) == IF n < 10 THEN Digit[n + 1] ELSE Str(n \div 10) \o Digit[(n % 10) + 1]

Range(s) == {s[i] : i \in 1..Len(s)}

RECURSIVE SumSeq(_)
SumSeq(s) == IF s = << >> THEN 0 ELSE Head(s) + SumSeq(Tail(s))

\* np.arange(lo, hi) as a sequence of indices lo, lo+1, .., hi-1
Arange(lo, hi) == [i \in 1..(hi - lo) |-> lo + i - 1]

\* ary[indices]: numpy fancy indexing with a sequence of 0-based indices
Take(ary, indices) == [i \in 1..Len(indices) |-> ary[indices[i] + 1]]

\* mutant: the Ntotal % Nsections extra items are given to no section
SectionSizesNoExtras(Ntotal, Nsections) ==
    [k \in 1..Nsections |-> Ntotal \div Nsections]

\* sizes of the sections np.array_split makes of Ntotal items in Nsections
\* sections (Nsections > 0): the first Ntotal % Nsections sections hold one more
SectionSizes(Ntotal, Nsections) ==
    [k \in 1..Nsections |->
        IF k <= Ntotal % Nsections THEN (Ntotal \div Nsections) + 1
                                   ELSE Ntotal \div Nsections]

\* np.array_split(indices, Nsections) for Nsections > 0: consecutive slices
ArraySplit(indices, Nsections) ==
    LET sizes == SectionSizes(Len(indices), Nsections)
        start(k) == SumSeq(SubSeq(sizes, 1, k - 1))
    IN  [k \in 1..Nsections |-> SubSeq(indices, start(k) + 1, start(k) + sizes[k])]

\* mutant: at least one section is asked for, however few the samples
NumSectionsAtLeastOne(n, num_samples_per_worker) ==
    IF n \div num_samples_per_worker = 0 THEN 1 ELSE n \div num_samples_per_worker

\* the number of sections __block__ asks np.array_split for
NumSections(n, num_samples_per_worker) == n \div num_samples_per_worker

\* os.path.join(io_path, 'tmp', f'{block_id}_x.npy'), relative to io_path
BlockPath(block_id, which) == "tmp/" \o Str(block_id) \o "_" \o which \o ".npy"

\* mutant: the clip_id is not qualified by the block id
ClipIdNoBlock(block_id, write_pointer) == Str(write_pointer)

\* f'{block_id}_{write_pointer}'
ClipId(block_id, write_pointer) == Str(block_id) \o "_" \o Str(write_pointer)

\* mutant: the label columns are keyed from "1"
RecordInfoOneBased(clip_id, yrow) ==
    [k \in {"clip_id"} \cup {Str(i) : i \in 1..Len(yrow)} |->
        IF k = "clip_id" THEN clip_id
        ELSE yrow[CHOOSE i \in 1..Len(yrow) : Str(i) = k]]

\* record_info: {'clip_id': clip_id} updated with {f'{i}': y[write_pointer, i]}
RecordInfo(clip_id, yrow) ==
    [k \in {"clip_id"} \cup {Str(i) : i \in 0..(Len(yrow) - 1)} |->
        IF k = "clip_id" THEN clip_id
        ELSE yrow[(CHOOSE i \in 0..(Len(yrow) - 1) : Str(i) = k) + 1]]

\* ---------------------------------------------------------------- callables
\* The caller's callables are opaque to the class; each is drawn from a small
\* family of behaviours.  "none" is the argument None.
BeforeTrials == {"none", "baseline", "drop_last", "repeat_last"}
OfflineTransforms == {"none", "double"}
AfterTrials == {"none", "center", "every_other", "strip_info"}
OnlineTransforms == {"none", "negate"}
LabelTransforms == {"none", "select_0"}

\* X = before_trial(X): a whole-trial hook on the block's sample array
BeforeTrialHook(h, Xarr) ==
    CASE h = "baseline" -> [i \in 1..Len(Xarr) |-> Xarr[i] - Xarr[1]]
      [] h = "drop_last" -> SubSeq(Xarr, 1, Len(Xarr) - 1)
      [] h = "repeat_last" -> Append(Xarr, Xarr[Len(Xarr)])
      [] OTHER -> Xarr

\* transform(eeg=clip_sample)['eeg']
OfflineTransform(t, clip_sample) ==
    IF t = "double" THEN 2 * clip_sample ELSE clip_sample

\* trial_queue = after_trial(trial_queue): a whole-trial hook on the records
AfterTrialHook(h, queue) ==
    CASE h = "center" ->
            [i \in 1..Len(queue) |->
                [queue[i] EXCEPT !.eeg = queue[i].eeg - queue[1].eeg]]
      [] h = "every_other" ->
            [i \in 1..((Len(queue) + 1) \div 2) |-> queue[2 * i - 1]]
      [] h = "strip_info" ->
            [i \in 1..Len(queue) |->
                IF i = Len(queue)
                THEN [eeg |-> queue[i].eeg, key |-> queue[i].key]
                ELSE queue[i]]
      [] OTHER -> queue

\* self.online_transform(eeg=eeg)['eeg']
OnlineTransform(t, signal) ==
    IF t = "negate" THEN 0 - signal ELSE signal

\* self.label_transform(y=info)['y']: Select('0') picks the first label
LabelTransform(t, row) ==
    IF t = "select_0" THEN row["0"] ELSE row

\* ---------------------------------------------------------------- state
VARIABLES
    X, y,                    \* the arrays, or lists of paths, given to the constructor
    X_kind, y_kind,          \* what X and y are: "ndarray" or "paths" (a list of str)
    num_samples_per_worker,
    num_worker,
    before_trial, offline_transform, after_trial,
    online_transform, label_transform,
    main_pc,                 \* "block", "io", "done", "error", "aborted", "stopped"
    block_samples_list,      \* __block__: the split of np.arange(len(X))
    X_y_block_id_list,       \* __block__: the block descriptors returned
    tmp,                     \* the files under io_path/tmp: path -> array
    raised,                  \* __block__: the exception it raised, or "none"
    pc,                      \* per block: where its __io__ call stands
    Xb, yb,                  \* per block: __io__'s locals X and y
    write_pointer,           \* per block: the enumerate counter of the loop
    trial_queue,             \* per block: __io__'s local trial_queue
    obj_pointer,             \* per block: position of the loop over trial_queue
    err,                     \* per block: the exception that ended it, or "none"
    lock,                    \* the block id of the holder, or NoHolder
    eeg_io,                  \* signal store: sequence of [key, eeg] written
    info_io,                 \* metadata store: sequence of rows written
    get_pc,                  \* __getitem__: "idle", "read_eeg", "return", "raised"
    index,                   \* __getitem__: the argument of the last call, or -1
    info,                    \* __getitem__: the local info, or << >>
    eeg,                     \* __getitem__: the local eeg, or << >>
    ret                      \* __getitem__: the (signal, label) last returned, or << >>

inputs == <<X, y, X_kind, y_kind, num_samples_per_worker, num_worker,
            before_trial, offline_transform, after_trial,
            online_transform, label_transform>>
planner == <<block_samples_list, X_y_block_id_list, tmp, raised>>
workers == <<pc, Xb, yb, write_pointer, trial_queue, obj_pointer, err>>
stores == <<eeg_io, info_io>>
reader == <<get_pc, index, info, eeg, ret>>
vars == <<inputs, main_pc, planner, workers, lock, stores, reader>>

NoHolder == -1

\* the block ids of the planned blocks
BlockIds == {X_y_block_id_list[k][3] : k \in 1..Len(X_y_block_id_list)}

\* the sample array of n samples offered as X (sample g is the number g + 1)
XChoice(n) == [g \in 1..n |-> g]

\* the numbers of label columns offered, and the label matrix of n rows
LabelColumns == {1, 2}
YChoice(n, l) == [g \in 1..n |-> [j \in 1..l |-> (g * j) % 3]]

\* a list of n paths of files saved with np.save, offered as X or y
PathList(which, n) == [i \in 1..n |-> "data/" \o Str(i - 1) \o "_" \o which \o ".npy"]

\* nothing has run yet: no block planned, no worker started, the stores empty
NothingRun ==
    /\ main_pc = "block"
    /\ block_samples_list = << >>
    /\ X_y_block_id_list = << >>
    /\ tmp = << >>
    /\ raised = "none"
    /\ pc = << >>
    /\ Xb = << >>
    /\ yb = << >>
    /\ write_pointer = << >>
    /\ trial_queue = << >>
    /\ obj_pointer = << >>
    /\ err = << >>
    /\ lock = NoHolder
    /\ eeg_io = << >>
    /\ info_io = << >>
    /\ get_pc = "idle"
    /\ index = -1
    /\ info = << >>
    /\ eeg = << >>
    /\ ret = << >>

\* the state after construction on two arrays of equal length, for at most
\* maxn samples and maxb blocks
InitFor(maxn, maxb) ==
    /\ \E n \in 1..maxn, l \in LabelColumns :
          /\ X = XChoice(n)
          /\ y = YChoice(n, l)
    /\ X_kind = "ndarray"
    /\ y_kind = "ndarray"
    /\ num_samples_per_worker \in 1..(maxn + 1)
    /\ NumSections(Len(X), num_samples_per_worker) <= maxb
    /\ num_worker \in 0..MaxWorker
    /\ before_trial \in BeforeTrials
    /\ offline_transform \in OfflineTransforms
    /\ after_trial \in AfterTrials
    /\ NothingRun

\* the pipeline: the transforms of the read path are not configured
Init ==
    /\ InitFor(MaxN, MaxBlocks)
    /\ online_transform = "none"
    /\ label_transform = "none"

\* ---------------------------------------------------------------- __block__
\* the files __block__ saves for the blocks of a split
SavedBlocks(split) ==
    [p \in {BlockPath(k - 1, "x") : k \in 1..Len(split)}
           \cup {BlockPath(k - 1, "y") : k \in 1..Len(split)} |->
        LET k == CHOOSE k \in 1..Len(split) :
                    p \in {BlockPath(k - 1, "x"), BlockPath(k - 1, "y")}
        IN  IF p = BlockPath(k - 1, "x") THEN Take(X, split[k])
                                         ELSE Take(y, split[k])]

\* the sections of a split with a sample index that y has no row for
OutOfRows(split) ==
    {k \in 1..Len(split) : \E i \in 1..Len(split[k]) : split[k][i] >= Len(y)}

\* mutant: the path branch is taken when either of X and y is a list of str
IsPathInputEither(xk, yk) == xk = "paths" \/ yk = "paths"

\* X_str and y_str
IsPathInput(xk, yk) == xk = "paths" /\ yk = "paths"

\* X_ndarray and y_ndarray
IsArrayInput(xk, yk) == xk = "ndarray" /\ yk = "ndarray"

Min(a, b) == IF a < b THEN a ELSE b

\* mutant: the block ids are counted from 1
PathBlocksFromOne(Xl, yl) ==
    [k \in 1..Min(Len(Xl), Len(yl)) |-> <<Xl[k], yl[k], k>>]

\* the descriptors of enumerate(zip(X, y)): zip stops at the shorter list
PathBlocks(Xl, yl) ==
    [k \in 1..Min(Len(Xl), Len(yl)) |-> <<Xl[k], yl[k], k - 1>>]

\* __block__ on two lists of paths: one block per pair, nothing saved
BlockPaths ==
    /\ main_pc = "block"
    /\ IsPathInput(X_kind, y_kind)
    /\ LET list == PathBlocks(X, y)
           ids == 0..(Len(list) - 1)
       IN  /\ X_y_block_id_list' = list
           /\ pc' = [b \in ids |-> "pending"]
           /\ Xb' = [b \in ids |-> << >>]
           /\ yb' = [b \in ids |-> << >>]
           /\ write_pointer' = [b \in ids |-> 0]
           /\ trial_queue' = [b \in ids |-> << >>]
           /\ obj_pointer' = [b \in ids |-> 0]
           /\ err' = [b \in ids |-> "none"]
    /\ main_pc' = "io"
    /\ UNCHANGED <<inputs, block_samples_list, tmp, raised, lock, stores, reader>>

\* __block__ on two arrays with at least one section: split, save, describe
BlockArrays ==
    /\ main_pc = "block"
    /\ ~IsPathInput(X_kind, y_kind)
    /\ IsArrayInput(X_kind, y_kind)
    /\ NumSections(Len(X), num_samples_per_worker) > 0
    /\ OutOfRows(ArraySplit(Arange(0, Len(X)),
                            NumSections(Len(X), num_samples_per_worker))) = {}
    /\ LET split == ArraySplit(Arange(0, Len(X)),
                               NumSections(Len(X), num_samples_per_worker))
           ids == 0..(Len(split) - 1)
       IN  /\ block_samples_list' = split
           /\ tmp' = SavedBlocks(split)
           /\ X_y_block_id_list' =
                 [k \in 1..Len(split) |->
                     <<BlockPath(k - 1, "x"), BlockPath(k - 1, "y"), k - 1>>]
           /\ pc' = [b \in ids |-> "pending"]
           /\ Xb' = [b \in ids |-> << >>]
           /\ yb' = [b \in ids |-> << >>]
           /\ write_pointer' = [b \in ids |-> 0]
           /\ trial_queue' = [b \in ids |-> << >>]
           /\ obj_pointer' = [b \in ids |-> 0]
           /\ err' = [b \in ids |-> "none"]
    /\ main_pc' = "io"
    /\ UNCHANGED <<inputs, raised, lock, stores, reader>>

\* __block__ when len(X) // num_samples_per_worker is 0: np.array_split raises
\* ValueError before any block is saved
BlockRaises ==
    /\ main_pc = "block"
    /\ ~IsPathInput(X_kind, y_kind)
    /\ IsArrayInput(X_kind, y_kind)
    /\ NumSections(Len(X), num_samples_per_worker) <= 0
    /\ main_pc' = "error"
    /\ raised' = "ValueError_array_split"
    /\ UNCHANGED <<inputs, block_samples_list, X_y_block_id_list, tmp, workers,
                   lock, stores, reader>>

\* __block__ on two arrays when y has fewer rows than X: y[sample_indices]
\* raises IndexError at the first block with an index y lacks, after the
\* blocks before it were saved
BlockIndexError ==
    /\ main_pc = "block"
    /\ ~IsPathInput(X_kind, y_kind)
    /\ IsArrayInput(X_kind, y_kind)
    /\ NumSections(Len(X), num_samples_per_worker) > 0
    /\ OutOfRows(ArraySplit(Arange(0, Len(X)),
                            NumSections(Len(X), num_samples_per_worker))) # {}
    /\ LET split == ArraySplit(Arange(0, Len(X)),
                               NumSections(Len(X), num_samples_per_worker))
           bad == CHOOSE k \in OutOfRows(split) : \A j \in OutOfRows(split) : k <= j
       IN  /\ block_samples_list' = split
           /\ tmp' = SavedBlocks(SubSeq(split, 1, bad - 1))
    /\ main_pc' = "error"
    /\ raised' = "IndexError"
    /\ UNCHANGED <<inputs, X_y_block_id_list, workers, lock, stores, reader>>

\* __block__ on anything else: raise ValueError('X and y must be either ...')
BlockValueError ==
    /\ main_pc = "block"
    /\ ~IsPathInput(X_kind, y_kind)
    /\ ~IsArrayInput(X_kind, y_kind)
    /\ main_pc' = "error"
    /\ raised' = "ValueError_X_y"
    /\ UNCHANGED <<inputs, block_samples_list, X_y_block_id_list, tmp, workers,
                   lock, stores, reader>>

\* ---------------------------------------------------------------- stores
\* EEGSignalIO.write_eeg(eeg, key): the signal is appended under key
write_eeg(store, signal, key) == Append(store, [key |-> key, eeg |-> signal])

\* MetaInfoIO.write_info(row): the row is appended to the table
write_info(store, row) == Append(store, row)

\* the keys of the signal store and the clip_ids of the metadata rows
EegKeys == {eeg_io[i].key : i \in 1..Len(eeg_io)}
InfoClipIds == {info_io[i]["clip_id"] : i \in 1..Len(info_io)}

\* ---------------------------------------------------------------- worker pool
Live(b) == pc[b] \notin {"pending", "done", "failed"}

\* executors the pool may keep busy: num_worker, or the caller alone when 0
Slots == IF num_worker = 0 THEN 1 ELSE num_worker

\* the next block of the sequence is handed to a free executor
Dispatch(b) ==
    /\ main_pc = "io"
    /\ pc[b] = "pending"
    /\ \A c \in BlockIds : c < b => pc[c] # "pending"
    /\ Cardinality({c \in BlockIds : Live(c)}) < Slots
    /\ num_worker = 0 => \A c \in BlockIds : pc[c] # "failed"
    /\ pc' = [pc EXCEPT ![b] = "load"]
    /\ UNCHANGED <<inputs, main_pc, planner, Xb, yb, write_pointer, trial_queue,
                   obj_pointer, err, lock, stores, reader>>

\* every block has returned: the run is complete
Finish ==
    /\ main_pc = "io"
    /\ \A b \in BlockIds : pc[b] = "done"
    /\ main_pc' = "done"
    /\ UNCHANGED <<inputs, planner, workers, lock, stores, reader>>

\* a block has raised: the whole run is aborted and the error surfaced
Abort ==
    /\ main_pc = "io"
    /\ \E b \in BlockIds : pc[b] = "failed"
    /\ main_pc' = "aborted"
    /\ UNCHANGED <<inputs, planner, workers, lock, stores, reader>>

\* the run is stopped from outside (killed), wherever the workers stand
HardStop ==
    /\ main_pc = "io"
    /\ main_pc' = "stopped"
    /\ UNCHANGED <<inputs, planner, workers, lock, stores, reader>>

\* ---------------------------------------------------------------- __io__
\* the locals of the loop body at the current write_pointer of block b
ClipSample(b) == Xb[b][write_pointer[b] + 1]
TEeg(b) ==
    IF offline_transform # "none"
    THEN OfflineTransform(offline_transform, ClipSample(b))
    ELSE ClipSample(b)

\* mutant: the clip_id counts the records of the whole store, not of the block
CurClipIdShared(b) == ClipId(X_y_block_id_list[b + 1][3], Len(info_io))

CurClipId(b) == ClipId(X_y_block_id_list[b + 1][3], write_pointer[b])

\* mutant: the row names the clip_id of the next pass of the loop
CurRecordInfoNext(b) ==
    RecordInfo(ClipId(X_y_block_id_list[b + 1][3], write_pointer[b] + 1),
               yb[b][write_pointer[b] + 1])

CurRecordInfo(b) == RecordInfo(CurClipId(b), yb[b][write_pointer[b] + 1])

\* mutant: the loop over the hook's records keeps writing the first record
ObjFirst(b) == trial_queue[b][1]

\* the obj of the loop over the trial_queue the hook returned
Obj(b) == trial_queue[b][obj_pointer[b] + 1]

\* np.load of the block's two files, then the before_trial hook
IoLoad(b) ==
    /\ main_pc = "io"
    /\ pc[b] = "load"
    /\ Xb' = [Xb EXCEPT ![b] =
                 IF before_trial # "none"
                 THEN BeforeTrialHook(before_trial, tmp[X_y_block_id_list[b + 1][1]])
                 ELSE tmp[X_y_block_id_list[b + 1][1]]]
    /\ yb' = [yb EXCEPT ![b] = tmp[X_y_block_id_list[b + 1][2]]]
    /\ pc' = [pc EXCEPT ![b] = "loop"]
    /\ UNCHANGED <<inputs, main_pc, planner, write_pointer, trial_queue,
                   obj_pointer, err, lock, stores, reader>>

\* one pass of the loop body with an after_trial hook: the record is queued
IoQueue(b) ==
    /\ main_pc = "io"
    /\ pc[b] = "loop"
    /\ write_pointer[b] < Len(Xb[b])
    /\ write_pointer[b] < Len(yb[b])
    /\ after_trial # "none"
    /\ trial_queue' = [trial_queue EXCEPT ![b] =
          Append(@, [eeg |-> TEeg(b), key |-> CurClipId(b), info |-> CurRecordInfo(b)])]
    /\ write_pointer' = [write_pointer EXCEPT ![b] = @ + 1]
    /\ UNCHANGED <<inputs, main_pc, planner, pc, Xb, yb, obj_pointer, err, lock, stores, reader>>

\* one pass of the loop body without after_trial: the record goes to the lock
IoSample(b) ==
    /\ main_pc = "io"
    /\ pc[b] = "loop"
    /\ write_pointer[b] < Len(Xb[b])
    /\ write_pointer[b] < Len(yb[b])
    /\ after_trial = "none"
    /\ pc' = [pc EXCEPT ![b] = "lock"]
    /\ UNCHANGED <<inputs, main_pc, planner, Xb, yb, write_pointer, trial_queue,
                   obj_pointer, err, lock, stores, reader>>

\* one pass of the loop body past the last row of y: y[write_pointer, i]
\* raises IndexError
IoIndexError(b) ==
    /\ main_pc = "io"
    /\ pc[b] = "loop"
    /\ write_pointer[b] < Len(Xb[b])
    /\ write_pointer[b] >= Len(yb[b])
    /\ pc' = [pc EXCEPT ![b] = "failed"]
    /\ err' = [err EXCEPT ![b] = "IndexError"]
    /\ UNCHANGED <<inputs, main_pc, planner, Xb, yb, write_pointer, trial_queue,
                   obj_pointer, lock, stores, reader>>

\* before_trial(X) raises: the exception ends the block
BeforeTrialRaises(b) ==
    /\ main_pc = "io"
    /\ pc[b] = "load"
    /\ before_trial # "none"
    /\ pc' = [pc EXCEPT ![b] = "failed"]
    /\ err' = [err EXCEPT ![b] = "CallableError_before_trial"]
    /\ UNCHANGED <<inputs, main_pc, planner, Xb, yb, write_pointer, trial_queue,
                   obj_pointer, lock, stores, reader>>

\* transform(eeg=clip_sample) raises in a pass of the loop body
TransformRaises(b) ==
    /\ main_pc = "io"
    /\ pc[b] = "loop"
    /\ write_pointer[b] < Len(Xb[b])
    /\ offline_transform # "none"
    /\ pc' = [pc EXCEPT ![b] = "failed"]
    /\ err' = [err EXCEPT ![b] = "CallableError_offline_transform"]
    /\ UNCHANGED <<inputs, main_pc, planner, Xb, yb, write_pointer, trial_queue,
                   obj_pointer, lock, stores, reader>>

\* after_trial(trial_queue) raises once the loop is over
AfterTrialRaises(b) ==
    /\ main_pc = "io"
    /\ pc[b] = "loop"
    /\ write_pointer[b] >= Len(Xb[b])
    /\ Len(trial_queue[b]) > 0 /\ after_trial # "none"
    /\ pc' = [pc EXCEPT ![b] = "failed"]
    /\ err' = [err EXCEPT ![b] = "CallableError_after_trial"]
    /\ UNCHANGED <<inputs, main_pc, planner, Xb, yb, write_pointer, trial_queue,
                   obj_pointer, lock, stores, reader>>

\* mutant: the with block is entered without waiting for the lock
IoAcquireNoWait(b) ==
    /\ main_pc = "io"
    /\ pc[b] = "lock"
    /\ lock' = b
    /\ pc' = [pc EXCEPT ![b] = "write_eeg"]
    /\ UNCHANGED <<inputs, main_pc, planner, Xb, yb, write_pointer, trial_queue,
                   obj_pointer, err, stores, reader>>

\* with lock: entered once the lock is free
IoAcquire(b) ==
    /\ main_pc = "io"
    /\ pc[b] = "lock"
    /\ lock = NoHolder
    /\ lock' = b
    /\ pc' = [pc EXCEPT ![b] = "write_eeg"]
    /\ UNCHANGED <<inputs, main_pc, planner, Xb, yb, write_pointer, trial_queue,
                   obj_pointer, err, stores, reader>>

\* eeg_io.write_eeg(t_eeg, clip_id)
IoWriteEeg(b) ==
    /\ main_pc = "io"
    /\ pc[b] = "write_eeg"
    /\ eeg_io' = write_eeg(eeg_io, TEeg(b), CurClipId(b))
    /\ pc' = [pc EXCEPT ![b] = "write_info"]
    /\ UNCHANGED <<inputs, main_pc, planner, Xb, yb, write_pointer, trial_queue,
                   obj_pointer, err, lock, info_io, reader>>

\* mutant: the row is written and the lock not released
IoWriteInfoKeepsLock(b) ==
    /\ main_pc = "io"
    /\ pc[b] = "write_info"
    /\ info_io' = write_info(info_io, CurRecordInfo(b))
    /\ write_pointer' = [write_pointer EXCEPT ![b] = @ + 1]
    /\ pc' = [pc EXCEPT ![b] = "loop"]
    /\ UNCHANGED <<inputs, main_pc, planner, Xb, yb, trial_queue, obj_pointer,
                   err, lock, eeg_io, reader>>

\* mutant: a failing write_info is swallowed and the loop goes on
IoWriteInfoLost(b) ==
    /\ main_pc = "io"
    /\ pc[b] = "write_info"
    /\ lock' = NoHolder
    /\ write_pointer' = [write_pointer EXCEPT ![b] = @ + 1]
    /\ pc' = [pc EXCEPT ![b] = "loop"]
    /\ UNCHANGED <<inputs, main_pc, planner, Xb, yb, trial_queue, obj_pointer,
                   err, stores, reader>>

\* info_io.write_info(record_info), the lock released, the next pass
IoWriteInfo(b) ==
    /\ main_pc = "io"
    /\ pc[b] = "write_info"
    /\ info_io' = write_info(info_io, CurRecordInfo(b))
    /\ lock' = NoHolder
    /\ write_pointer' = [write_pointer EXCEPT ![b] = @ + 1]
    /\ pc' = [pc EXCEPT ![b] = "loop"]
    /\ UNCHANGED <<inputs, main_pc, planner, Xb, yb, trial_queue, obj_pointer,
                   err, eeg_io, reader>>

\* mutant: the hook is called and its return value dropped
IoAfterTrialDropsResult(b) ==
    /\ main_pc = "io"
    /\ pc[b] = "loop"
    /\ write_pointer[b] >= Len(Xb[b])
    /\ Len(trial_queue[b]) > 0 /\ after_trial # "none"
    /\ pc' = [pc EXCEPT ![b] = "trial"]
    /\ UNCHANGED <<inputs, main_pc, planner, Xb, yb, write_pointer, trial_queue,
                   obj_pointer, err, lock, stores, reader>>

\* the loop is over and there is a queue for the hook: after_trial is applied
IoAfterTrial(b) ==
    /\ main_pc = "io"
    /\ pc[b] = "loop"
    /\ write_pointer[b] >= Len(Xb[b])
    /\ Len(trial_queue[b]) > 0 /\ after_trial # "none"
    /\ trial_queue' = [trial_queue EXCEPT ![b] = AfterTrialHook(after_trial, @)]
    /\ pc' = [pc EXCEPT ![b] = "trial"]
    /\ UNCHANGED <<inputs, main_pc, planner, Xb, yb, write_pointer, obj_pointer,
                   err, lock, stores, reader>>

\* the loop is over and nothing is left for a hook: __io__ returns
IoReturn(b) ==
    /\ main_pc = "io"
    /\ pc[b] = "loop"
    /\ write_pointer[b] >= Len(Xb[b])
    /\ ~(Len(trial_queue[b]) > 0 /\ after_trial # "none")
    /\ pc' = [pc EXCEPT ![b] = "done"]
    /\ UNCHANGED <<inputs, main_pc, planner, Xb, yb, write_pointer, trial_queue,
                   obj_pointer, err, lock, stores, reader>>

\* for obj in trial_queue: the assert on obj holds, on to the lock
TrialAssert(b) ==
    /\ main_pc = "io"
    /\ pc[b] = "trial"
    /\ obj_pointer[b] < Len(trial_queue[b])
    /\ {"eeg", "key", "info"} \subseteq DOMAIN Obj(b)
    /\ pc' = [pc EXCEPT ![b] = "trial_lock"]
    /\ UNCHANGED <<inputs, main_pc, planner, Xb, yb, write_pointer, trial_queue,
                   obj_pointer, err, lock, stores, reader>>

\* for obj in trial_queue: the assert on obj fails with AssertionError
TrialAssertFails(b) ==
    /\ main_pc = "io"
    /\ pc[b] = "trial"
    /\ obj_pointer[b] < Len(trial_queue[b])
    /\ ~({"eeg", "key", "info"} \subseteq DOMAIN Obj(b))
    /\ pc' = [pc EXCEPT ![b] = "failed"]
    /\ err' = [err EXCEPT ![b] = "AssertionError"]
    /\ UNCHANGED <<inputs, main_pc, planner, Xb, yb, write_pointer, trial_queue,
                   obj_pointer, lock, stores, reader>>

\* with lock, in the loop over the hook's records
TrialAcquire(b) ==
    /\ main_pc = "io"
    /\ pc[b] = "trial_lock"
    /\ lock = NoHolder
    /\ lock' = b
    /\ pc' = [pc EXCEPT ![b] = "trial_write_eeg"]
    /\ UNCHANGED <<inputs, main_pc, planner, Xb, yb, write_pointer, trial_queue,
                   obj_pointer, err, stores, reader>>

\* eeg_io.write_eeg(obj['eeg'], obj['key'])
TrialWriteEeg(b) ==
    /\ main_pc = "io"
    /\ pc[b] = "trial_write_eeg"
    /\ eeg_io' = write_eeg(eeg_io, Obj(b).eeg, Obj(b).key)
    /\ pc' = [pc EXCEPT ![b] = "trial_write_info"]
    /\ UNCHANGED <<inputs, main_pc, planner, Xb, yb, write_pointer, trial_queue,
                   obj_pointer, err, lock, info_io, reader>>

\* info_io.write_info(obj['info']), the lock released, the next obj
TrialWriteInfo(b) ==
    /\ main_pc = "io"
    /\ pc[b] = "trial_write_info"
    /\ info_io' = write_info(info_io, Obj(b).info)
    /\ lock' = NoHolder
    /\ obj_pointer' = [obj_pointer EXCEPT ![b] = @ + 1]
    /\ pc' = [pc EXCEPT ![b] = "trial"]
    /\ UNCHANGED <<inputs, main_pc, planner, Xb, yb, write_pointer, trial_queue,
                   err, eeg_io, reader>>

\* the loop over the hook's records is over: __io__ returns
TrialReturn(b) ==
    /\ main_pc = "io"
    /\ pc[b] = "trial"
    /\ obj_pointer[b] >= Len(trial_queue[b])
    /\ pc' = [pc EXCEPT ![b] = "done"]
    /\ UNCHANGED <<inputs, main_pc, planner, Xb, yb, write_pointer, trial_queue,
                   obj_pointer, err, lock, stores, reader>>

\* mutant: a store write raises and the lock stays with the dead block
WriteRaisesKeepsLock(b) ==
    /\ main_pc = "io"
    /\ pc[b] \in {"write_eeg", "write_info", "trial_write_eeg", "trial_write_info"}
    /\ err' = [err EXCEPT ![b] = "StoreError_" \o pc[b]]
    /\ pc' = [pc EXCEPT ![b] = "failed"]
    /\ UNCHANGED <<inputs, main_pc, planner, Xb, yb, write_pointer, trial_queue,
                   obj_pointer, lock, stores, reader>>

\* a store write raises inside a with block: the with statement releases the
\* lock and the exception ends the block
WriteRaises(b) ==
    /\ main_pc = "io"
    /\ pc[b] \in {"write_eeg", "write_info", "trial_write_eeg", "trial_write_info"}
    /\ lock' = NoHolder
    /\ err' = [err EXCEPT ![b] = "StoreError_" \o pc[b]]
    /\ pc' = [pc EXCEPT ![b] = "failed"]
    /\ UNCHANGED <<inputs, main_pc, planner, Xb, yb, write_pointer, trial_queue,
                   obj_pointer, stores, reader>>

\* the steps of __io__ on block b in which nothing raises
IoRuns(b) ==
    \/ IoLoad(b) \/ IoQueue(b) \/ IoSample(b) \/ IoAcquire(b) \/ IoWriteEeg(b)
    \/ IoWriteInfo(b) \/ IoAfterTrial(b) \/ IoReturn(b) \/ TrialAssert(b)
    \/ TrialAcquire(b) \/ TrialWriteEeg(b) \/ TrialWriteInfo(b) \/ TrialReturn(b)

\* the steps of __io__ on block b that end it with an exception
IoRaises(b) ==
    \/ BeforeTrialRaises(b) \/ TransformRaises(b) \/ IoIndexError(b)
    \/ AfterTrialRaises(b) \/ TrialAssertFails(b) \/ WriteRaises(b)

Io(b) == IoRuns(b) \/ IoRaises(b)

Next ==
    \/ BlockArrays
    \/ BlockRaises
    \/ \E b \in BlockIds : Dispatch(b)
    \/ \E b \in BlockIds : Io(b)
    \/ Finish
    \/ Abort
    \/ HardStop

Spec == Init /\ [][Next]_vars

\* a run in which nothing raises and nobody stops it: enough samples for a
\* block, callables that return what __io__ expects of them
InitRuns ==
    /\ InitFor(MaxN, MaxBlocks)
    /\ num_samples_per_worker <= Len(X)
    /\ before_trial \in BeforeTrials \ {"repeat_last"}
    /\ after_trial \in AfterTrials \ {"strip_info"}
NextRuns ==
    \/ BlockArrays
    \/ \E b \in BlockIds : Dispatch(b)
    \/ \E b \in BlockIds : IoRuns(b)
    \/ Finish

\* such a run under fair scheduling: a step that stays possible is taken
InitLive == InitRuns /\ online_transform = "none" /\ label_transform = "none"
SpecLive == InitLive /\ [][NextRuns]_vars /\ WF_vars(NextRuns)

\* ---------------------------------------------------------------- __getitem__
\* BaseDataset.read_info(index): the metadata row at index
read_info(idx) == info_io[idx + 1]

\* BaseDataset.read_eeg(key): the signal stored under key; a missing key raises
HasEeg(key) == key \in EegKeys
read_eeg(key) == eeg_io[CHOOSE i \in 1..Len(eeg_io) : eeg_io[i].key = key].eeg

\* BaseDataset.__len__: the number of metadata rows
Length == Len(info_io)

\* info = self.read_info(index), for an index in range
GetItemReadInfo ==
    /\ get_pc = "idle"
    /\ main_pc \in {"io", "done"}
    /\ \E i \in 0..(Length - 1) : index' = i /\ info' = read_info(i)
    /\ get_pc' = "read_eeg"
    /\ ret' = << >>
    /\ UNCHANGED <<inputs, main_pc, planner, workers, lock, stores, eeg>>

\* eeg = self.read_eeg(str(info['clip_id']))
GetItemReadEeg ==
    /\ get_pc = "read_eeg"
    /\ IF HasEeg(info["clip_id"])
       THEN eeg' = read_eeg(info["clip_id"]) /\ get_pc' = "return"
       ELSE eeg' = eeg /\ get_pc' = "raised"
    /\ UNCHANGED <<inputs, main_pc, planner, workers, lock, stores, index, info, ret>>

\* mutant: the signal returned is written back to the signal store
GetItemReturnWritesBack ==
    /\ get_pc = "return"
    /\ get_pc' = "idle"
    /\ info' = << >>
    /\ eeg' = << >>
    /\ ret' = <<eeg, info>>
    /\ eeg_io' = write_eeg(eeg_io, eeg, info["clip_id"])
    /\ UNCHANGED <<inputs, main_pc, planner, workers, lock, info_io, index>>

\* mutant: the online transform is not applied
GetItemReturnRawSignal ==
    /\ get_pc = "return"
    /\ get_pc' = "idle"
    /\ info' = << >>
    /\ eeg' = << >>
    /\ ret' = <<eeg,
                IF label_transform # "none"
                THEN LabelTransform(label_transform, info) ELSE info>>
    /\ UNCHANGED <<inputs, main_pc, planner, workers, lock, stores, index>>

\* the transforms of the read path, then return signal, label
GetItemReturn ==
    /\ get_pc = "return"
    /\ get_pc' = "idle"
    /\ info' = << >>
    /\ eeg' = << >>
    /\ ret' = <<IF online_transform # "none"
                THEN OnlineTransform(online_transform, eeg) ELSE eeg,
                IF label_transform # "none"
                THEN LabelTransform(label_transform, info) ELSE info>>
    /\ UNCHANGED <<inputs, main_pc, planner, workers, lock, stores, index>>

\* the pipeline with a reader calling __getitem__ while it runs and after it
\* (on at most MaxReadN samples, the reader multiplying the states of a run)
InitRead ==
    /\ InitFor(MaxReadN, MaxBlocks)
    /\ online_transform = "none"
    /\ label_transform = "none"
NextRead == Next \/ GetItemReadInfo \/ GetItemReadEeg \/ GetItemReturn
SpecRead == InitRead /\ [][NextRead]_vars

\* a run in which nothing raises, with a reader, the transforms of the read
\* path configured or not
InitGet ==
    /\ InitRuns
    /\ online_transform \in OnlineTransforms
    /\ label_transform \in LabelTransforms
NextGet == NextRuns \/ GetItemReadInfo \/ GetItemReadEeg \/ GetItemReturn
SpecGet == InitGet /\ [][NextGet]_vars

\* __block__ alone, on larger inputs of every kind: X and y each an array or a
\* list of paths, of any two lengths; the arguments __block__ does not read
\* are left unset
InitBlock ==
    /\ X_kind \in {"ndarray", "paths"}
    /\ y_kind \in {"ndarray", "paths"}
    /\ \E n \in 1..MaxBlockN :
          X = IF X_kind = "ndarray" THEN XChoice(n) ELSE PathList("x", n)
    /\ \E m \in 1..MaxBlockN, l \in LabelColumns :
          /\ y = IF y_kind = "ndarray" THEN YChoice(m, l) ELSE PathList("y", m)
          /\ y_kind = "paths" => l = 1
    /\ num_samples_per_worker \in 1..(MaxBlockN + 1)
    /\ num_worker = 0
    /\ before_trial = "none"
    /\ offline_transform = "none"
    /\ after_trial = "none"
    /\ online_transform = "none"
    /\ label_transform = "none"
    /\ NothingRun
NextBlock ==
    BlockPaths \/ BlockArrays \/ BlockRaises \/ BlockIndexError \/ BlockValueError
SpecBlock == InitBlock /\ [][NextBlock]_vars

\* ---------------------------------------------------------------- claims
BlockSizes == [k \in 1..Len(block_samples_list) |-> Len(block_samples_list[k])]

\* __block__ has returned a block list for two arrays
Planned == main_pc \notin {"block", "error"}

\* C1: for array input with 1 <= num_samples_per_worker <= N, __block__ returns
\* blocks whose sizes sum to N, that share no index, and that together hold
\* every index of 0..N-1.
C1_BlocksPartition ==
    (/\ main_pc # "block"
     /\ IsArrayInput(X_kind, y_kind) /\ Len(X) = Len(y)
     /\ num_samples_per_worker <= Len(X)) =>
        /\ Planned
        /\ SumSeq(BlockSizes) = Len(X)
        /\ \A k \in 1..Len(block_samples_list) :
              Cardinality(Range(block_samples_list[k])) = Len(block_samples_list[k])
        /\ \A j, k \in 1..Len(block_samples_list) :
              j # k => Range(block_samples_list[j]) \cap Range(block_samples_list[k]) = {}
        /\ UNION {Range(block_samples_list[k]) : k \in 1..Len(block_samples_list)}
              = 0..(Len(X) - 1)
        /\ \A k \in 1..Len(block_samples_list) :
              /\ tmp[X_y_block_id_list[k][1]] = Take(X, block_samples_list[k])
              /\ tmp[X_y_block_id_list[k][2]] = Take(y, block_samples_list[k])

\* C1 witness: a planned split into several blocks of unequal sizes
C1_Witness ==
    /\ Planned
    /\ IsArrayInput(X_kind, y_kind) /\ Len(X) = Len(y)
    /\ Len(block_samples_list) >= 2
    /\ \E j, k \in 1..Len(block_samples_list) : BlockSizes[j] # BlockSizes[k]

Ceil(a, b) == (a + b - 1) \div b

Contiguous(s) == \A i \in 1..(Len(s) - 1) : s[i + 1] = s[i] + 1

\* C2: for array input with N samples, __block__ returns exactly
\* ceil(N / num_samples_per_worker) blocks, each a contiguous index range, with
\* sizes differing by at most one, so no block holds more than
\* num_samples_per_worker samples.
C2_CeilBlocks ==
    (Planned /\ IsArrayInput(X_kind, y_kind) /\ Len(X) = Len(y)) =>
        /\ Len(block_samples_list) = Ceil(Len(X), num_samples_per_worker)
        /\ \A k \in 1..Len(block_samples_list) : Contiguous(block_samples_list[k])
        /\ \A j, k \in 1..Len(block_samples_list) :
              BlockSizes[j] - BlockSizes[k] <= 1
        /\ \A k \in 1..Len(block_samples_list) :
              BlockSizes[k] <= num_samples_per_worker

\* C3: no two records written to the stores during a run carry the same
\* clip_id, whichever workers wrote them and however they interleaved.
C3_ClipIdsUnique ==
    /\ \A i, j \in 1..Len(eeg_io) : i # j => eeg_io[i].key # eeg_io[j].key
    /\ \A i, j \in 1..Len(info_io) :
          i # j => info_io[i]["clip_id"] # info_io[j]["clip_id"]

\* the block a written key belongs to: the block whose id prefixes the key
WrittenBy(key) == {b \in BlockIds : \E i \in 0..Len(X) : key = ClipId(b, i)}

\* C3 witness: records of two blocks lie interleaved in the signal store while
\* a second worker waits for the lock
C3_Witness ==
    /\ Len(eeg_io) >= 3
    /\ WrittenBy(eeg_io[1].key) = WrittenBy(eeg_io[3].key)
    /\ WrittenBy(eeg_io[1].key) # WrittenBy(eeg_io[2].key)
    /\ \E b, c \in BlockIds :
          pc[b] \in {"write_info", "trial_write_info"} /\ pc[c] \in {"lock", "trial_lock"}

\* C4: after a run in which every block completed, both stores hold the same
\* number of records, and the clip_ids of the metadata rows are the keys of the
\* signal store, each occurring once.
C4_NoOrphansWhenDone ==
    main_pc = "done" =>
        /\ Len(eeg_io) = Len(info_io)
        /\ EegKeys = InfoClipIds
        /\ Cardinality(EegKeys) = Len(eeg_io)
        /\ Cardinality(InfoClipIds) = Len(info_io)

\* C4 witness: a completed run of two workers whose records are not in block
\* order in the stores
C4_Witness ==
    /\ main_pc = "done"
    /\ num_worker >= 2
    /\ Len(info_io) >= 3
    /\ \E i \in 1..(Len(info_io) - 1) :
          \E b \in WrittenBy(info_io[i]["clip_id"]) :
             \E c \in WrittenBy(info_io[i + 1]["clip_id"]) : c < b

\* a block stands, or failed, between the two store writes of one record
MidRecord(b) ==
    \/ pc[b] \in {"write_info", "trial_write_info"}
    \/ err[b] \in {"StoreError_write_info", "StoreError_trial_write_info"}

\* the key of the record block b was writing
MidKey(b) == IF after_trial = "none" THEN CurClipId(b) ELSE Obj(b).key

Halted == main_pc \in {"stopped", "aborted"}

\* C5 as stated: after a hard stop or a failure at any point, every signal
\* entry has its metadata row and every metadata row has its signal entry.
C5_NoHalfWrittenRecord ==
    Halted => (EegKeys = InfoClipIds /\ Len(eeg_io) = Len(info_io))

\* C5 amended: after a hard stop or a failure every metadata row has its signal
\* entry, and a signal entry without a metadata row is the record a stopped or
\* failed block was writing between its two store writes.
C5_OrphanSignalsOnly ==
    Halted =>
        /\ InfoClipIds \subseteq EegKeys
        /\ (EegKeys \ InfoClipIds) \subseteq {MidKey(b) : b \in {c \in BlockIds : MidRecord(c)}}
        /\ Len(eeg_io) - Len(info_io) = Cardinality({c \in BlockIds : MidRecord(c)})

\* C5 witness: a run stopped between the two writes of a record, after other
\* records were written whole
C5_Witness ==
    /\ main_pc = "stopped"
    /\ Len(info_io) >= 1
    /\ EegKeys # InfoClipIds
    /\ \E b \in BlockIds : pc[b] \in {"write_info", "trial_write_info"}

InCritical(b) ==
    pc[b] \in {"write_eeg", "write_info", "trial_write_eeg", "trial_write_info"}

\* C6: at most one worker is between the start of a record's signal write and
\* the end of its metadata write, it holds the lock, and once its signal is
\* written no other worker's entry follows it before its metadata row.
C6_WritesExclusive ==
    /\ Cardinality({b \in BlockIds : InCritical(b)}) <= 1
    /\ \A b \in BlockIds : InCritical(b) => lock = b
    /\ \A b \in BlockIds :
          pc[b] \in {"write_info", "trial_write_info"} =>
              /\ Len(eeg_io) > 0
              /\ eeg_io[Len(eeg_io)].key = MidKey(b)
              /\ MidKey(b) \notin InfoClipIds

\* C6 witness: one worker between its two writes while another waits for the
\* lock, on the after-trial path
C6_Witness ==
    \E b, c \in BlockIds :
        /\ pc[b] = "trial_write_info"
        /\ pc[c] = "trial_lock"
        /\ Len(info_io) >= 1

\* C7: a reader that takes no lock never finds a metadata row without its
\* signal: whenever __getitem__ has resolved a row, and for every row a reader
\* could resolve, the signal keyed by the row's clip_id is in the signal store,
\* so read_eeg never raises.
C7_ReaderInSync ==
    /\ get_pc # "raised"
    /\ get_pc = "read_eeg" => HasEeg(info["clip_id"])
    /\ \A i \in 0..(Length - 1) : HasEeg(read_info(i)["clip_id"])

\* C7 witness: the reader has resolved a row while a worker stands between
\* its two store writes and the run goes on
C7_Witness ==
    /\ main_pc = "io"
    /\ get_pc = "read_eeg"
    /\ \E b \in BlockIds : pc[b] \in {"write_info", "trial_write_info"}

\* the records __io__ is to write for the k-th block when no after_trial hook
\* is configured, from the arrays given to the constructor
BlockRecords(k) ==
    LET idx == block_samples_list[k]
        raw == Take(X, idx)
        arr == IF before_trial # "none" THEN BeforeTrialHook(before_trial, raw) ELSE raw
    IN  [i \in 1..Len(arr) |->
            [eeg |-> IF offline_transform # "none"
                     THEN OfflineTransform(offline_transform, arr[i]) ELSE arr[i],
             key |-> Str(k - 1) \o "_" \o Str(i - 1),
             info |-> [c \in {"clip_id"} \cup {Str(j) : j \in 0..(Len(y[1]) - 1)} |->
                         IF c = "clip_id" THEN Str(k - 1) \o "_" \o Str(i - 1)
                         ELSE y[idx[i] + 1][(CHOOSE j \in 0..(Len(y[1]) - 1) : Str(j) = c) + 1]]]]

\* the blocks run one after another in the caller: the records in written order
RECURSIVE SequentialRun(_)
SequentialRun(k) == IF k = 0 THEN << >> ELSE SequentialRun(k - 1) \o BlockRecords(k)

\* the (signal, metadata) pairs of a sequence of records, and of the stores
PairsOf(records) == {<<records[i].eeg, records[i].info>> : i \in 1..Len(records)}
StorePairs ==
    {<<eeg_io[i].eeg, info_io[j]>> :
        <<i, j>> \in {p \in (1..Len(eeg_io)) \X (1..Len(info_io)) :
                        eeg_io[p[1]].key = info_io[p[2]]["clip_id"]}}

\* C8: with no after_trial hook, a completed run leaves the same set of
\* (signal, metadata) pairs whatever num_worker and the interleaving: the pairs
\* of the blocks run one after another, which is also the persisted order when
\* num_worker = 0.
C8_ParallelismInvariant ==
    (main_pc = "done" /\ after_trial = "none") =>
        LET seq == SequentialRun(Len(block_samples_list))
        IN  /\ StorePairs = PairsOf(seq)
            /\ Len(eeg_io) = Len(seq)
            /\ Len(info_io) = Len(seq)
            /\ num_worker = 0 =>
                  /\ eeg_io = [i \in 1..Len(seq) |-> [key |-> seq[i].key, eeg |-> seq[i].eeg]]
                  /\ info_io = [i \in 1..Len(seq) |-> seq[i].info]

\* C8 witness: a completed run of several workers, without after_trial, whose
\* persisted order is not the order of the sequential run
C8_Witness ==
    /\ main_pc = "done"
    /\ after_trial = "none"
    /\ num_worker >= 2
    /\ Len(info_io) >= 3
    /\ info_io # [i \in 1..Len(info_io) |-> SequentialRun(Len(block_samples_list))[i].info]

\* the entries of the stores written for block b, in written order
EegOf(b) == SelectSeq(eeg_io, LAMBDA e : b \in WrittenBy(e.key))
InfoOf(b) == SelectSeq(info_io, LAMBDA r : b \in WrittenBy(r["clip_id"]))

\* C9: with no hooks, a block with id b of n samples and L label columns
\* writes exactly n records "b_0" .. "b_(n-1)"; record i holds the offline
\* transform of sample i and a row with exactly the keys clip_id, "0", ..,
\* "L-1", label[i][j] under str(j).  N=100, num_samples_per_worker=50 plans two
\* blocks of 50, the last clip_ids being "0_49" and "1_49".
C9_RecordsOfBlock ==
    /\ (Planned /\ before_trial = "none" /\ after_trial = "none") =>
          \A b \in BlockIds :
             pc[b] = "done" =>
                LET idx == block_samples_list[b + 1]
                    n == Len(idx)
                    L == Len(y[1])
                IN  /\ Len(EegOf(b)) = n
                    /\ Len(InfoOf(b)) = n
                    /\ \A i \in 0..(n - 1) :
                          /\ EegOf(b)[i + 1].key = Str(b) \o "_" \o Str(i)
                          /\ EegOf(b)[i + 1].eeg =
                                (IF offline_transform = "double"
                                 THEN 2 * X[idx[i + 1] + 1] ELSE X[idx[i + 1] + 1])
                          /\ DOMAIN InfoOf(b)[i + 1] =
                                {"clip_id"} \cup {Str(j) : j \in 0..(L - 1)}
                          /\ InfoOf(b)[i + 1]["clip_id"] = Str(b) \o "_" \o Str(i)
                          /\ \A j \in 0..(L - 1) :
                                InfoOf(b)[i + 1][Str(j)] = y[idx[i + 1] + 1][j + 1]
    /\ SectionSizes(100, NumSections(100, 50)) = <<50, 50>>
    /\ ClipId(0, 49) = "0_49" /\ ClipId(1, 49) = "1_49"
    /\ DOMAIN RecordInfo("1_49", <<7, 3>>) = {"clip_id", "0", "1"}

\* C9 witness: a block of two samples with two label columns has returned
\* while another block is still being written
C9_Witness ==
    /\ Planned /\ before_trial = "none" /\ after_trial = "none"
    /\ Len(y[1]) = 2
    /\ \E b, c \in BlockIds :
          /\ pc[b] = "done" /\ Len(block_samples_list[b + 1]) >= 2
          /\ pc[c] \in {"write_eeg", "write_info"}

\* the records after_trial returns for the k-th block
HookRecords(k) == AfterTrialHook(after_trial, BlockRecords(k))

\* C10 as stated (for an even input count, where half is a count, and a
\* before_trial hook, if any, that returns as many samples as it is given):
\* a hook that drops every other record leaves exactly half the input count
\* in the store, and length() is that count.
C10_HalfTheInput ==
    (/\ main_pc = "done"
     /\ after_trial = "every_other"
     /\ Len(X) % 2 = 0
     /\ \A b \in BlockIds : Len(Xb[b]) = Len(yb[b])) =>
        (2 * Len(eeg_io) = Len(X) /\ 2 * Length = Len(X))

\* C10 amended: with an after_trial hook, the records written for a block are
\* exactly the records the hook returns for the block's queue, one signal entry
\* and one row each; a hook that drops every other record of a queue of n
\* records leaves ceil(n/2) of them, which makes half the input count when
\* every block queued one record per sample, an even number of them, and
\* length() is the count left.
C10_HookRecordsWritten ==
    (main_pc = "done" /\ after_trial # "none") =>
        /\ \A b \in BlockIds :
              /\ EegOf(b) = [i \in 1..Len(HookRecords(b + 1)) |->
                                [key |-> HookRecords(b + 1)[i].key,
                                 eeg |-> HookRecords(b + 1)[i].eeg]]
              /\ InfoOf(b) = [i \in 1..Len(HookRecords(b + 1)) |-> HookRecords(b + 1)[i].info]
        /\ Len(eeg_io) = SumSeq([k \in 1..Len(block_samples_list) |-> Len(HookRecords(k))])
        /\ Length = Len(eeg_io)
        /\ after_trial = "every_other" =>
              /\ Length = SumSeq([k \in 1..Len(block_samples_list) |->
                                    Ceil(Len(BlockRecords(k)), 2)])
              /\ (\A k \in 1..Len(block_samples_list) :
                     Len(BlockRecords(k)) = BlockSizes[k] /\ BlockSizes[k] % 2 = 0)
                    => 2 * Length = Len(X)

\* C10 witness: a completed run with the hook that drops every other record,
\* over two blocks of two samples
C10_Witness ==
    /\ main_pc = "done"
    /\ after_trial = "every_other"
    /\ BlockSizes = <<2, 2>>
    /\ Length = 2

\* C11: when num_samples_per_worker is greater than the sample count of an
\* array input, __block__ raises instead of returning a block list or making
\* a block without samples, and no block file has been saved when it raises.
C11_TooFewSamplesRaises ==
    (/\ main_pc # "block"
     /\ IsArrayInput(X_kind, y_kind)
     /\ num_samples_per_worker > Len(X)) =>
        /\ main_pc = "error"
        /\ raised = "ValueError_array_split"
        /\ X_y_block_id_list = << >>
        /\ block_samples_list = << >>
        /\ tmp = << >>

\* C11 witness: __block__ has raised on an array of several samples, fewer
\* than num_samples_per_worker
C11_Witness ==
    /\ main_pc = "error"
    /\ IsArrayInput(X_kind, y_kind)
    /\ Len(X) >= 2
    /\ num_samples_per_worker > Len(X)

\* C12: a list of paths for one of X, y and an array for the other makes
\* __block__ raise its ValueError, and when it raises no block file has been
\* saved, no __io__ call (which opens the stores) has started and the stores
\* are empty.
C12_MixedInputRaises ==
    (main_pc # "block" /\ X_kind # y_kind) =>
        /\ main_pc = "error"
        /\ raised = "ValueError_X_y"
        /\ X_y_block_id_list = << >>
        /\ tmp = << >>
        /\ pc = << >>
        /\ eeg_io = << >> /\ info_io = << >>

\* C12 witness: __block__ has raised on a list of paths for X and an array
\* for y
C12_Witness ==
    /\ main_pc = "error"
    /\ X_kind = "paths" /\ y_kind = "ndarray"
    /\ Len(X) >= 2 /\ Len(y) >= 2

\* C13: input that is neither two arrays of equal length nor two lists of
\* paths of equal length is rejected: __block__ raises and plans no block.
C13_UnequalInputRejected ==
    (main_pc # "block" /\ ~(X_kind = y_kind /\ Len(X) = Len(y))) =>
        (main_pc = "error" /\ X_y_block_id_list = << >>)

\* C14: for two lists of k paths __block__ returns k descriptors in input
\* order, the i-th being (X[i], y[i], i), and saves nothing; the descriptors
\* are a function of the input alone, for arrays the pair of block files and
\* the id of each of the len(X) // num_samples_per_worker sections.
C14_DescriptorsInOrder ==
    /\ (main_pc # "block" /\ IsPathInput(X_kind, y_kind) /\ Len(X) = Len(y)) =>
          /\ Planned
          /\ Len(X_y_block_id_list) = Len(X)
          /\ \A i \in 0..(Len(X) - 1) :
                X_y_block_id_list[i + 1] = <<X[i + 1], y[i + 1], i>>
          /\ BlockIds = 0..(Len(X) - 1)
          /\ tmp = << >>
    /\ (Planned /\ IsArrayInput(X_kind, y_kind)) =>
          /\ Len(X_y_block_id_list) = Len(X) \div num_samples_per_worker
          /\ \A i \in 0..(Len(X_y_block_id_list) - 1) :
                X_y_block_id_list[i + 1] =
                   <<"tmp/" \o Str(i) \o "_x.npy", "tmp/" \o Str(i) \o "_y.npy", i>>

\* C14 witness: three pairs of paths have been planned
C14_Witness ==
    /\ Planned
    /\ IsPathInput(X_kind, y_kind)
    /\ Len(X) = Len(y)
    /\ Len(X_y_block_id_list) >= 3

\* the clip_ids of block b, and the entries of the two stores that carry them
ClipIdsOf(b) == {ClipId(b, i) : i \in 0..Len(X)}
EegOfBlock(b) == {i \in 1..Len(eeg_io) : eeg_io[i].key \in ClipIdsOf(b)}
InfoOfBlock(b) == {i \in 1..Len(info_io) : info_io[i]["clip_id"] \in ClipIdsOf(b)}

\* C15: the pair returned by __getitem__(index) is made of the row at index
\* and of the one signal stored under that row's clip_id, which are the two
\* halves of one record a block wrote; the signal is returned as stored when
\* online_transform is None, the label is the row when label_transform is
\* None and the transform's 'y' (here the label in column '0') otherwise.
C15_GetReturnsRecord ==
    ret # << >> =>
        LET row == info_io[index + 1]
            at == {i \in 1..Len(eeg_io) : eeg_io[i].key = row["clip_id"]}
        IN  /\ Cardinality(at) = 1
            /\ \A i \in at :
                  /\ ret[1] = IF online_transform = "negate"
                              THEN 0 - eeg_io[i].eeg ELSE eeg_io[i].eeg
                  /\ \E k \in 1..Len(X_y_block_id_list) :
                        \E r \in 1..Len(HookRecords(k)) :
                            /\ HookRecords(k)[r].key = row["clip_id"]
                            /\ HookRecords(k)[r].eeg = eeg_io[i].eeg
                            /\ HookRecords(k)[r].info = row
            /\ ret[2] = IF label_transform = "select_0" THEN row["0"] ELSE row

\* C15 witness: with a label transform and no online transform, the reader
\* got the pair of the first row, written by the second block ahead of the
\* first block's rows
C15_Witness ==
    /\ ret # << >>
    /\ index = 0
    /\ label_transform = "select_0"
    /\ online_transform = "none"
    /\ Len(info_io) >= 3
    /\ info_io[1]["clip_id"] \in ClipIdsOf(1)
    /\ info_io[2]["clip_id"] \in ClipIdsOf(0)

\* what was written stays: each store is its former self, possibly longer
StoresOnlyGrow ==
    /\ Len(eeg_io') >= Len(eeg_io)
    /\ SubSeq(eeg_io', 1, Len(eeg_io)) = eeg_io
    /\ Len(info_io') >= Len(info_io)
    /\ SubSeq(info_io', 1, Len(info_io)) = info_io

\* C16: a step of __getitem__ leaves both stores unchanged, a completed run's
\* stores never change again, and no step removes or alters an entry.
C16_ReadNeverWrites ==
    [][/\ (reader' # reader \/ main_pc = "done") => stores' = stores
       /\ StoresOnlyGrow]_vars

\* C16 witness: after a completed run the reader has been returned the pair
\* of the second of several rows
C16_Witness ==
    /\ main_pc = "done"
    /\ ret # << >>
    /\ index = 1
    /\ Len(info_io) >= 2

\* C17: a block whose after_trial hook returned a record without one of the
\* keys 'eeg', 'key', 'info' fails with AssertionError having written nothing
\* to either store.
C17_MalformedWritesNothing ==
    \A b \in BlockIds :
        err[b] = "AssertionError" => (EegOfBlock(b) = {} /\ InfoOfBlock(b) = {})

\* C18: a block whose before_trial hook returned an array with another number
\* of samples than the block's labels does not complete, and writes no record.
C18_CountChangeIsFatal ==
    \A b \in BlockIds :
        (pc[b] \notin {"pending", "load"} /\ Len(Xb[b]) # Len(yb[b])) =>
            (pc[b] # "done" /\ EegOfBlock(b) = {} /\ InfoOfBlock(b) = {})

\* the exceptions of the caller's callables
CallableErrors ==
    {"CallableError_before_trial", "CallableError_offline_transform",
     "CallableError_after_trial"}

\* C19: a callable is run by a worker that does not hold the lock; a block
\* that failed, in a callable or in a store write inside the with block, does
\* not hold the lock, and the step in which it fails changes no store; and no
\* step removes or alters an entry already written.
C19_FailureLeavesOthersIntact ==
    [][/\ \A b \in BlockIds :
             /\ pc[b] \in {"load", "loop", "trial"} => lock # b
             /\ pc'[b] = "failed" => lock' # b
             /\ (pc'[b] = "failed" /\ pc[b] # "failed") => stores' = stores
       /\ lock' # NoHolder => (lock' \in BlockIds /\ InCritical(lock)')
       /\ StoresOnlyGrow]_vars

\* C19 witness: a block has failed in a callable after writing a record, and
\* another block is inside its with block, a record of its own written before
C19_Witness ==
    \E b, c \in BlockIds :
        /\ b # c
        /\ err[b] \in CallableErrors
        /\ InfoOfBlock(b) # {}
        /\ pc[c] \in {"write_info", "trial_write_info"}
        /\ lock = c
        /\ InfoOfBlock(c) # {}

\* the lock is held only inside a with block, by the worker that is in it
LockDiscipline ==
    /\ \A b \in BlockIds : lock = b => InCritical(b)
    /\ lock # NoHolder => lock \in BlockIds

\* a worker that has started and not returned can take a step, unless it
\* stands at a with statement while another worker holds the lock
WaitsOnlyForLock ==
    \A b \in BlockIds :
        (Live(b) /\ main_pc = "io") =>
            \/ ENABLED IoRuns(b)
            \/ pc[b] \in {"lock", "trial_lock"} /\ lock \in BlockIds \ {b}

\* every block has returned with all its records written
AllBlocksDone ==
    /\ main_pc = "done"
    /\ lock = NoHolder
    /\ \A b \in BlockIds :
          /\ pc[b] = "done"
          /\ write_pointer[b] = Len(Xb[b])
          /\ obj_pointer[b] = IF after_trial = "none" THEN 0 ELSE Len(trial_queue[b])
          /\ Cardinality(InfoOfBlock(b)) =
                IF after_trial = "none" THEN Len(Xb[b]) ELSE Len(trial_queue[b])
          /\ Cardinality(EegOfBlock(b)) = Cardinality(InfoOfBlock(b))

\* C20: in a run where nothing raises, under fair scheduling, the lock is held
\* only by a worker inside one record's two store writes, a worker that cannot
\* step is waiting at a with statement for a lock another worker holds, and
\* the run ends with every block done and all its records written.
C20_NoDeadlockRunCompletes ==
    /\ [](LockDiscipline /\ WaitsOnlyForLock)
    /\ <>[]AllBlocksDone

\* C20 witness: a worker waits at the with statement while another worker is
\* between its two store writes, with records of both already written
C20_Witness ==
    \E b, c \in BlockIds :
        /\ b # c
        /\ pc[b] \in {"lock", "trial_lock"}
        /\ pc[c] \in {"write_info", "trial_write_info"}
        /\ lock = c
        /\ EegOfBlock(b) # {} /\ InfoOfBlock(c) # {}

====
